---- MODULE Spec2Model ----
(***************************************************************************)
(* Model of the Wi-Fi Direct connection flow of ConnectionManager.kt as    *)
(* the three patch scripts leave it:                                       *)
(*   fix_connection_manager.py  connect retry with peer rediscovery        *)
(*   fix_go_ip_v3.py            group-info retry and client IP resolution  *)
(*   fix_go_ip_v2.py            resolveAnyP2pClientFromArp and the         *)
(*                              parallel subnet scan discoverP2pClientIp   *)
(* Strings are sequences of one-character strings, a nullable value is a   *)
(* sequence of length 0 (null) or 1.                                       *)
(***************************************************************************)
EXTENDS Integers, Sequences, FiniteSets, TLC

\* ------------------------------------------------------------------ bounds
\* number of initiateConnection calls the caller makes, one after the other
MaxFlows == 2
\* number of requestGroupInfo calls of one flow the model follows
MaxGroupAttempts == 2
\* granularity of the clock
TickMs == 500
\* rows of an ARP table given to the MAC-free lookup on its own
MaxRows == 3

\* --------------------------------------------------------------- constants
\* the patched file declares MAX_CONNECT_RETRIES, CONNECTION_RETRY_DELAY_MS
\* and DHCP_SETTLE_DELAY_MS outside the patched blocks: the retry count is
\* the one of the specification's scenario (attempt 1/3), the two delays are
\* some positive number of milliseconds
MAX_CONNECT_RETRIES == 3
CONNECT_RETRY_DELAY_MS == 2000
PEER_REDISCOVERY_DELAY_MS == 3500
CONNECTION_RETRY_DELAY_MS == 1000
DHCP_SETTLE_DELAY_MS == 1000
ARP_RETRY_COUNT == 3
ARP_RETRY_DELAY_MS == 2000
batchSize == 25
FIRST_HOST == 2
LAST_HOST == 254

\* ----------------------------------------------------------------- strings
DigitChars == <<"0", "1", "2", "3", "4", "5", "6", "7", "8", "9">>

\* Kotlin string template "$i" of a non-negative Int
RECURSIVE IntToString(_)
IntToString(i) ==
    IF i < 10 THEN <<DigitChars[i + 1]>>
    ELSE IntToString(i \div 10) \o <<DigitChars[(i % 10) + 1]>>

\* "192.168.49."
P2P_PREFIX == <<"1", "9", "2", ".", "1", "6", "8", ".", "4", "9", ".">>
\* "192.168.49.1", the group owner
GO_IP == P2P_PREFIX \o <<"1">>

\* candidateIp = "192.168.49.$i"
candidateIp(i) == P2P_PREFIX \o IntToString(i)

IsSpace(c) == c \in {" ", "\t"}

startsWith(s, p) == Len(s) >= Len(p) /\ SubSeq(s, 1, Len(p)) = p

\* the k-th smallest element of a set of numbers
Nth(S, k) == CHOOSE i \in S : Cardinality({j \in S : j < i}) = k - 1

\* String.lines(): the text cut at every line break
lines(text) ==
    LET breaks == {i \in 1 .. Len(text) : text[i] = "\n"}
        n == Cardinality(breaks)
        from(k) == IF k = 1 THEN 1 ELSE Nth(breaks, k - 1) + 1
        to(k) == IF k = n + 1 THEN Len(text) ELSE Nth(breaks, k) - 1
    IN  [k \in 1 .. n + 1 |-> SubSeq(text, from(k), to(k))]

\* line.trim().split("\\s+".toRegex()): the runs of non-blank characters;
\* the split of a blank line is the list of one empty string
parts(line) ==
    LET starts == {i \in 1 .. Len(line) :
                     /\ ~IsSpace(line[i])
                     /\ (i = 1 \/ IsSpace(line[i - 1]))}
        ends == {i \in 1 .. Len(line) :
                     /\ ~IsSpace(line[i])
                     /\ (i = Len(line) \/ IsSpace(line[i + 1]))}
    IN  IF starts = {} THEN << <<>> >>
        ELSE [k \in 1 .. Cardinality(starts) |->
                 SubSeq(line, Nth(starts, k), Nth(ends, k))]

\* ------------------------------------------------------- nullable values
Null == <<>>
Some(v) == <<v>>

\* ------------------------------------------------------------ ARP lookups
\* a read of /proc/net/arp: the text, or the read throws
Unreadable == [ok |-> FALSE, text |-> <<>>]
Readable(t) == [ok |-> TRUE, text |-> t]

\* the first line of the table whose first token is a 192.168.49.x string
\* other than 192.168.49.1
RECURSIVE firstP2pClient(_)
firstP2pClient(ls) ==
    IF ls = <<>> THEN Null
    ELSE LET ip == Head(parts(Head(ls)))
         IN  IF startsWith(ip, P2P_PREFIX) /\ ip # GO_IP THEN Some(ip)
             ELSE firstP2pClient(Tail(ls))

\* private fun resolveAnyP2pClientFromArp(): String?
resolveAnyP2pClientFromArp(read) ==
    IF ~read.ok THEN Null                    \* catch (e: Exception)
    ELSE firstP2pClient(lines(read.text))

\* the first line whose HW address column is the given address
RECURSIVE firstWithMac(_, _)
firstWithMac(ls, macAddress) ==
    IF ls = <<>> THEN Null
    ELSE LET p == parts(Head(ls))
         IN  IF Len(p) >= 4 /\ p[4] = macAddress THEN Some(p[1])
             ELSE firstWithMac(Tail(ls), macAddress)

\* private fun resolveIpFromArp(macAddress: String): String?
resolveIpFromArp(read, macAddress) ==
    IF ~read.ok THEN Null
    ELSE firstWithMac(lines(read.text), macAddress)

\* ----------------------------------------------------------------- inputs
\* device address of the requested peer, and of another group client
PEER_DEVICE == <<"a", "a", ":", "b", "b", ":", "c", "c">>
OTHER_DEVICE == <<"1", "1", ":", "2", "2", ":", "3", "3">>
\* interface address of the peer when Android randomizes it
RANDOM_MAC == <<"a", "2", ":", "b", "b", ":", "c", "c">>

SP == <<" ", " ">>
NL == <<"\n">>
HEADER == <<"I", "P", " ", "a", "d", "d", "r", "e", "s", "s", " ", "H", "W">>
ArpRow(ip, mac) ==
    ip \o SP \o <<"0", "x", "1">> \o SP \o <<"0", "x", "2">> \o SP \o mac
       \o SP \o <<"*">> \o SP \o <<"p", "2", "p", "0">>
OFF_SUBNET_IP == <<"1", "0", ".", "0", ".", "0", ".", "5">>
\* a row cut off inside the address, and a row that is not an address
TRUNCATED_ROW == P2P_PREFIX
GARBAGE_ROW == P2P_PREFIX \o <<"?", "?">>

ArpTexts ==
    { <<>>,
      HEADER,
      HEADER \o NL \o ArpRow(GO_IP, RANDOM_MAC) \o NL
             \o ArpRow(OFF_SUBNET_IP, OTHER_DEVICE),
      HEADER \o NL \o ArpRow(candidateIp(12), RANDOM_MAC) \o NL,
      HEADER \o NL \o ArpRow(GO_IP, OTHER_DEVICE) \o NL
             \o ArpRow(candidateIp(40), PEER_DEVICE) \o NL
             \o ArpRow(candidateIp(12), RANDOM_MAC),
      HEADER \o NL \o TRUNCATED_ROW,
      GARBAGE_ROW \o NL \o ArpRow(candidateIp(12), RANDOM_MAC) }

\* a table is malformed when a line after the header is not a row of six
\* columns whose first column is a dotted quad of numbers
MalformedTexts ==
    { HEADER \o NL \o TRUNCATED_ROW,
      GARBAGE_ROW \o NL \o ArpRow(candidateIp(12), RANDOM_MAC) }

\* a first column that begins like a client address but names no host
OUT_OF_RANGE_IP == P2P_PREFIX \o <<"9", "9", "9">>

\* first columns of the rows of a table given to resolveAnyP2pClientFromArp
\* on its own: two clients, the group owner, an address of another subnet
\* and the two strings above that are no addresses
ArpCheckIps ==
    {candidateIp(10), candidateIp(2), GO_IP, OFF_SUBNET_IP, OUT_OF_RANGE_IP,
     TRUNCATED_ROW}

\* the tables of up to MaxRows rows, in every order
ArpCheckRows ==
    UNION {[1 .. n -> ArpCheckIps] : n \in 0 .. MaxRows}

\* /proc/net/arp with these rows: the header line, then one line per row
RECURSIVE ArpRowsText(_)
ArpRowsText(rows) ==
    IF rows = <<>> THEN <<>>
    ELSE ArpRow(Head(rows), RANDOM_MAC) \o NL \o ArpRowsText(Tail(rows))

ArpTableText(rows) == HEADER \o NL \o ArpRowsText(rows)

ArpReads == {Unreadable} \cup {Readable(t) : t \in ArpTexts}

\* clients of a group info: the peer may be absent
ClientLists ==
    { <<>>, <<PEER_DEVICE>>, <<OTHER_DEVICE>>, <<OTHER_DEVICE, PEER_DEVICE>> }

\* WifiP2pManager error codes: ERROR, BUSY
ErrorCodes == {0, 2}

\* hosts that may answer a reachability probe; every other host of the
\* range stays silent until the probe timeout
CandidateHosts == {2, 3, 26, 27, 40, 254}

\* ---------------------------------------------------------- patch scripts
\* The three scripts read ConnectionManager.kt, split it into lines, change
\* the lines in memory and write the file back.  A line is its indentation
\* and its tokens: the runs of characters between blanks, with every brace
\* a token of its own.
Line(n, toks) == [indent |-> n, toks |-> toks]

\* Python None for a line index; the lines of a file are numbered from 1
None == 0

\* line.strip()
strip(line) == line.toks

\* needle in line
contains(line, needle) ==
    \E i \in 1 .. Len(line.toks) - Len(needle) + 1 :
        SubSeq(line.toks, i, i + Len(needle) - 1) = needle

\* for i, line in enumerate(lines): if ...: x = i; break
firstIndex(S) == IF S = {} THEN None ELSE CHOOSE i \in S : \A j \in S : i <= j

\* the Kotlin escape of a literal dollar before a brace, and the template
\* opener that fix 1 of fix_connection_manager puts in its place
old_interp == "${'$'}{"
new_interp == "${"

\* for ch in line: the braces among the characters of a token
braceChars(tok) ==
    IF tok = "{" THEN <<"{">>
    ELSE IF tok = "}" THEN <<"}">>
    ELSE IF tok = old_interp THEN <<"{", "}", "{">>
    ELSE IF tok = new_interp THEN <<"{">>
    ELSE <<>>

RECURSIVE toksBraces(_)
toksBraces(toks) ==
    IF toks = <<>> THEN <<>>
    ELSE braceChars(Head(toks)) \o toksBraces(Tail(toks))

lineBraces(line) == toksBraces(line.toks)

\* the braces of lines[s..], each with its line and its place in the line
bracePositions(kt, s) ==
    UNION {{<<i, j>> : j \in 1 .. Len(lineBraces(kt[i]))} :
             i \in s .. Len(kt)}

notAfter(q, p) == q[1] < p[1] \/ (q[1] = p[1] /\ q[2] <= p[2])

\* brace_depth when the brace at p has been counted
braceDepth(kt, s, p) ==
    LET upTo == {q \in bracePositions(kt, s) : notAfter(q, p)}
        opened == {q \in upTo : lineBraces(kt[q[1]])[q[2]] = "{"}
    IN  Cardinality(opened) - Cardinality(upTo \ opened)

\* for i in range(s, len(lines)): for ch in lines[i]: ... brace_depth == 0:
\* the line of the first closing brace that brings the depth back to 0
matchingBrace(kt, s) ==
    firstIndex({p[1] : p \in
        {q \in bracePositions(kt, s) :
            /\ lineBraces(kt[q[1]])[q[2]] = "}"
            /\ braceDepth(kt, s, q) = 0}})

\* the same loop with found_first_brace: an opening brace has been seen
matchingBraceAfterOpen(kt, s) ==
    firstIndex({p[1] : p \in
        {q \in bracePositions(kt, s) :
            /\ lineBraces(kt[q[1]])[q[2]] = "}"
            /\ braceDepth(kt, s, q) = 0
            /\ \E o \in bracePositions(kt, s) :
                 notAfter(o, q) /\ lineBraces(kt[o[1]])[o[2]] = "{"}})

\* lines[a:b+1] = block
splice(kt, a, b, block) ==
    SubSeq(kt, 1, a - 1) \o block \o SubSeq(kt, b + 1, Len(kt))

\* what a fix of a script leaves: the lines, or the way the script ended
Fixed(kt) == [status |-> "ok", lines |-> kt]
Exit1 == [status |-> "exit", lines |-> <<>>]
TypeError == [status |-> "crash", lines |-> <<>>]

\* the texts the scripts look for
FUNC_RESOLVE == <<"private", "fun", "resolveClientIpFromGroup(">>
SCOPE_LAUNCH == <<"scope.launch", "{">>
GROUP_NULL_LOG == <<"Group info null, retrying">>
TARGET_CLIENT == <<"val", "targetClient", "=", "clients.firstOrNull">>
old_marker ==
    <<"private", "fun", "resolveIpFromArp(macAddress: String)", ":",
      "String?", "{">>
FUNC_SCAN == <<"private", "suspend", "fun", "discoverP2pClientIp()">>
old_const ==
    <<"private", "const", "val", "CONNECT_RETRY_DELAY_MS", "=", "2000L">>
CLEANING_UP == <<"cleaning up before retry...">>
RETRYING_ANYWAY == <<"retrying anyway">>

\* the blocks the scripts put in
new_launch_block ==
    << Line(12, SCOPE_LAUNCH),
       Line(16, <<"delay(DHCP_SETTLE_DELAY_MS)">>),
       Line(16, <<"resolveAnyP2pClientFromArp()">>),
       Line(12, <<"}">>) >>

new_with_fallback ==
    << Line(4, <<"private", "fun", "resolveAnyP2pClientFromArp()", ":",
                 "String?", "{">>),
       Line(8, <<"return", "null">>),
       Line(4, <<"}">>),
       Line(0, <<>>),
       Line(4, old_marker) >>

new_scan ==
    << Line(4, FUNC_SCAN \o <<":", "String?", "{">>),
       Line(8, <<"return", "withContext(Dispatchers.IO)", "{">>),
       Line(12, <<"for", "(batchStart in 2..254 step batchSize)", "{">>),
       Line(12, <<"}">>),
       Line(8, <<"}">>),
       Line(4, <<"}">>) >>

new_first_scope ==
    << Line(20, SCOPE_LAUNCH),
       Line(24, <<"delay(CONNECTION_RETRY_DELAY_MS)">>),
       Line(24, <<"resolveClientIpFromGroup(", "attempt + 1", ")">>),
       Line(20, <<"}">>) >>

new_second_scope ==
    << Line(12, SCOPE_LAUNCH),
       Line(16, <<"delay(DHCP_SETTLE_DELAY_MS)">>),
       Line(16, <<"for", "(retryArp in 1..3)", "{">>),
       Line(16, <<"}">>),
       Line(12, <<"}">>) >>

new_const_line ==
    Line(8, <<"private", "const", "val", "PEER_REDISCOVERY_DELAY_MS", "=",
              "3500L">>)

new_retry_lines ==
    << Line(20, <<"manager.discoverPeers(", "channel", ")">>),
       Line(20, SCOPE_LAUNCH),
       Line(24, <<"delay(PEER_REDISCOVERY_DELAY_MS)">>),
       Line(20, <<"}">>) >>

\* ---- fix_go_ip_v2.py
\* the first line that is "scope.launch {" after a line of the function head
scope_launch_line(kt) ==
    firstIndex({i \in 1 .. Len(kt) :
                   /\ strip(kt[i]) = SCOPE_LAUNCH
                   /\ \E f \in 1 .. i - 1 : contains(kt[f], FUNC_RESOLVE)})

\* Fix 1: the block from scope_launch_line to its matching brace is replaced
v2Fix1(kt) ==
    LET start == scope_launch_line(kt)
    IN  IF start = None THEN Exit1
        ELSE LET end == matchingBrace(kt, start)
             IN  IF end = None THEN Exit1
                 ELSE Fixed(splice(kt, start, end, new_launch_block))

\* Fix 2: content.replace(old_marker, new_with_fallback, 1); the marker
\* begins with four blanks and fills its line in the files looked at
v2Fix2(kt) ==
    LET m == firstIndex({i \in 1 .. Len(kt) :
                            /\ kt[i].indent >= 4
                            /\ contains(kt[i], old_marker)})
    IN  IF m = None THEN Exit1
        ELSE Fixed(splice(kt, m, m, new_with_fallback))

\* Fix 3: discoverP2pClientIp, from its head to its matching brace
v2Fix3(kt) ==
    LET scan_start == firstIndex({i \in 1 .. Len(kt) :
                                     contains(kt[i], FUNC_SCAN)})
    IN  IF scan_start = None THEN Exit1
        ELSE LET scan_end == matchingBraceAfterOpen(kt, scan_start)
             IN  IF scan_end = None THEN Exit1
                 ELSE Fixed(splice(kt, scan_start, scan_end, new_scan))

\* ---- fix_go_ip_v3.py
\* STEP 1: the block that begins on the line after the log line; the end
\* of the block is used unchecked, print(first_scope_end + 1) raises when
\* it is None
v3Step1(kt) ==
    LET group_null_retry_line ==
            firstIndex({i \in 1 .. Len(kt) :
                           contains(kt[i], GROUP_NULL_LOG)})
        first_scope_line == group_null_retry_line + 1
    IN  IF group_null_retry_line = None THEN Exit1
        ELSE LET first_scope_end == matchingBrace(kt, first_scope_line)
             IN  IF first_scope_end = None THEN TypeError
                 ELSE Fixed(splice(kt, first_scope_line, first_scope_end,
                                   new_first_scope))

\* STEP 2: the scope.launch within ten lines from val targetClient
v3Step2(kt) ==
    LET target_client_line ==
            firstIndex({i \in 1 .. Len(kt) :
                           contains(kt[i], TARGET_CLIENT)})
        last == IF target_client_line + 9 < Len(kt)
                THEN target_client_line + 9 ELSE Len(kt)
        second_scope_line ==
            firstIndex({i \in target_client_line .. last :
                           contains(kt[i], <<"scope.launch">>)})
    IN  IF target_client_line = None THEN Exit1
        ELSE IF second_scope_line = None THEN Exit1
        ELSE LET second_scope_end == matchingBrace(kt, second_scope_line)
             IN  IF second_scope_end = None THEN TypeError
                 ELSE Fixed(splice(kt, second_scope_line,
                                   second_scope_end, new_second_scope))

\* ---- fix_connection_manager.py
\* Fix 1: content.replace(old_interp, new_interp), any number of times
cmFix1(kt) ==
    Fixed([i \in 1 .. Len(kt) |->
             [kt[i] EXCEPT !.toks =
                 [k \in 1 .. Len(kt[i].toks) |->
                     IF kt[i].toks[k] = old_interp THEN new_interp
                     ELSE kt[i].toks[k]]]])

\* Fix 2: the new constant on a line of its own after the old one
cmFix2(kt) ==
    LET c == firstIndex({i \in 1 .. Len(kt) :
                            contains(kt[i], old_const)})
    IN  IF c = None THEN Exit1
        ELSE Fixed(splice(kt, c, c, <<kt[c], new_const_line>>))

\* Fix 3: from "cleaning up before retry..." to the "})" that follows the
\* first "retrying anyway" within 30 lines, by at most 4 lines
cmFix3(kt) ==
    LET start_idx == firstIndex({i \in 1 .. Len(kt) :
                                    contains(kt[i], CLEANING_UP)})
        upTo(i, n) == IF i + n < Len(kt) THEN i + n ELSE Len(kt)
        anyway == firstIndex({i \in start_idx .. upTo(start_idx, 29) :
                                 contains(kt[i], RETRYING_ANYWAY)})
        end_idx == IF start_idx = None \/ anyway = None THEN None
                   ELSE firstIndex({j \in anyway + 1 .. upTo(anyway, 4) :
                                       strip(kt[j]) = <<"}", ")">>})
    IN  IF start_idx = None \/ end_idx = None THEN Exit1
        ELSE Fixed(splice(kt, start_idx, end_idx, new_retry_lines))

\* ---- the target files
\* the companion object, with the constant fix_connection_manager looks for
\* or without it
ConstSections ==
    { << Line(8, old_const) >>,
      << Line(8, <<"private", "const", "val", "MAX_CONNECT_RETRIES", "=",
                   "3">>) >> }

\* the retry of the connect listener: as the script expects it, without the
\* "})" that ends it, or absent
RetrySections ==
    { << Line(20, <<"Log.w(", "cleaning up before retry...", ")">>),
         Line(20, <<"manager.removeGroup(", "channel", "object", "{">>),
         Line(24, <<"Log.d(", old_interp, "code", "}", ")">>),
         Line(24, <<"Log.w(", "retrying anyway", ")">>),
         Line(24, <<"retryAction()">>),
         Line(20, <<"}", ")">>) >>,
      << Line(20, <<"Log.w(", "cleaning up before retry...", ")">>),
         Line(20, <<"manager.removeGroup(", "channel", "object", "{">>),
         Line(24, <<"Log.w(", "retrying anyway", ")">>),
         Line(24, <<"retryAction()">>),
         Line(20, <<"}">>) >>,
      <<>> }

FuncHead == Line(4, FUNC_RESOLVE \o <<"{">>)
IfGroupNull == Line(12, <<"if", "(group == null)", "{">>)
NullLog == Line(16, <<"Log.w(", "Group info null, retrying", ")">>)
RetryLaunch ==
    << Line(16, SCOPE_LAUNCH),
       Line(20, <<"delay(CONNECTION_RETRY_DELAY_MS)">>),
       Line(16, <<"}">>) >>
ElseBranch == Line(12, <<"}", "else", "{">>)
TargetLine ==
    Line(16, TARGET_CLIENT
               \o <<"{", "it.deviceAddress == originalDeviceAddress", "}">>)
ResolveLaunch ==
    << Line(16, SCOPE_LAUNCH),
       Line(20, <<"resolveIpFromArp(targetClient.deviceAddress)">>),
       Line(16, <<"}">>) >>
CloseBrace(n) == Line(n, <<"}">>)

\* resolveClientIpFromGroup with the retry block and the resolution block
RESOLVE_BOTH ==
    <<FuncHead, IfGroupNull, NullLog>> \o RetryLaunch
      \o <<ElseBranch, TargetLine>> \o ResolveLaunch
      \o <<CloseBrace(12), CloseBrace(4)>>
\* with the resolution block only
RESOLVE_ONLY ==
    <<FuncHead, TargetLine>> \o ResolveLaunch \o <<CloseBrace(4)>>
\* with a retry that is no scope.launch block
RESOLVE_POSTED ==
    <<FuncHead, IfGroupNull, NullLog,
      Line(16, <<"handler.postDelayed(", "{", "retry()", "}", ")">>),
      ElseBranch, TargetLine>> \o ResolveLaunch
      \o <<CloseBrace(12), CloseBrace(4)>>
\* without any scope.launch
RESOLVE_NO_LAUNCH ==
    <<FuncHead, TargetLine, Line(16, <<"onConnected(", "ip", ")">>),
      CloseBrace(4)>>
\* cut off inside the retry block
RESOLVE_CUT ==
    <<FuncHead, IfGroupNull, NullLog, Line(16, SCOPE_LAUNCH),
      Line(20, <<"delay(CONNECTION_RETRY_DELAY_MS)">>)>>
\* cut off inside the resolution block
RESOLVE_CUT_LATE ==
    <<FuncHead, IfGroupNull, NullLog>> \o RetryLaunch
      \o <<ElseBranch, TargetLine, Line(16, SCOPE_LAUNCH),
           Line(20, <<"resolveIpFromArp(targetClient.deviceAddress)">>)>>

ResolveSections ==
    {RESOLVE_BOTH, RESOLVE_ONLY, RESOLVE_POSTED, RESOLVE_NO_LAUNCH,
     RESOLVE_CUT, RESOLVE_CUT_LATE}

ArpSections ==
    { << Line(4, old_marker), Line(8, <<"return", "null">>),
         CloseBrace(4) >>,
      <<>> }

ScanSections ==
    { << Line(4, FUNC_SCAN \o <<":", "String?", "{">>),
         Line(8, <<"for", "(i in 2..20)", "{">>),
         CloseBrace(8),
         Line(8, <<"return", "null">>),
         CloseBrace(4) >>,
      << Line(4, FUNC_SCAN \o <<":", "String?", "{">>),
         Line(8, <<"return", "null">>) >>,
      <<>> }

\* ConnectionManager.kt as the scripts may find it
TargetFiles ==
    {c \o r \o f \o a \o s :
        c \in ConstSections, r \in RetrySections, f \in ResolveSections,
        a \in ArpSections, s \in ScanSections}

Scripts == {"fix_connection_manager", "fix_go_ip_v2", "fix_go_ip_v3"}

\* patch when no script is run
NoPatch ==
    [script |-> "none", pc |-> "none", orig |-> <<>>, disk |-> <<>>,
     lines |-> <<>>]

\* -------------------------------------------------------------- the state
VARIABLES
    flowNo,            \* number of the caller's initiateConnection call
    pc,                \* position of the flow
    connectAttempt,    \* parameter connectAttempt of initiateConnection
    attempt,           \* parameter attempt of resolveClientIpFromGroup
    timer,             \* remaining ms of the pending delay(), -1: none
    waited,            \* ms elapsed since the pending delay() began
    discoverPending,   \* discoverPeers calls whose listener has not run
    discoverLog,       \* outcome the discoverPeers listener logged last
    group,             \* "none" or "formed": the P2P group of the platform
    targetClient,      \* clients.firstOrNull { ... }, nullable
    clientIp,          \* var clientIp: String?
    retryArp,          \* loop variable of the ARP retry
    lastArpRead,       \* "none", "unreadable", "malformed", "ok"
    stageLog,          \* stages run by this flow, with their results
    batchStart,        \* loop variable of the subnet scan, 0: no scan
    inflight,          \* hosts whose probe has not completed
    reached,           \* hosts of this batch whose probe returned an IP
    firstReached,      \* host of this batch that answered first, 0: none
    batchLog,          \* batches started by this flow, with their results
    connectLog,        \* connect calls of this flow
    connectErrors,     \* connect errors of this flow
    discoverCalls,     \* discoverPeers calls of this flow
    removeGroup,       \* "none", "requested", "success", "failure"
    onConnectedCalls,  \* arguments of the onConnected calls of this flow
    onFailureCalls,    \* arguments of the onFailure calls of this flow
    resolvedBefore,    \* IP an earlier flow delivered for the peer
    ctxSeen,           \* what this flow ran, with the context it ran on
    arpCheck,          \* a call of resolveAnyP2pClientFromArp on its own
    patch              \* a run of one of the patch scripts on a file

connVars == <<connectAttempt, connectLog, connectErrors, discoverCalls>>
discVars == <<discoverPending, discoverLog>>
timeVars == <<timer, waited>>
groupVars == <<attempt, targetClient>>
arpVars == <<retryArp, lastArpRead>>
scanVars == <<batchStart, inflight, reached, firstReached, batchLog>>
callVars == <<onConnectedCalls, onFailureCalls>>

vars == <<flowNo, pc, connectAttempt, attempt, timer, waited,
          discoverPending, discoverLog, group, targetClient, clientIp,
          retryArp, lastArpRead, stageLog, batchStart, inflight, reached,
          batchLog, connectLog, connectErrors, discoverCalls, removeGroup,
          onConnectedCalls, onFailureCalls, resolvedBefore, firstReached,
          ctxSeen, arpCheck, patch>>

\* -------------------------------------------------------------- contexts
\* withContext(Dispatchers.Main) { ... }
MainContext == "Dispatchers.Main"

\* withContext(Dispatchers.IO) { ... } of discoverP2pClientIp
IoContext == "Dispatchers.IO"

\* scope.launch { ... }: the context of the manager's coroutine scope, which
\* the blocks leave with withContext(Dispatchers.Main) for the callbacks
ScopeContext == "scope"

\* the listeners of the peer-to-peer API run where the caller's callbacks
\* are expected
ListenerContext == MainContext

Seen(what, ctx) == ctxSeen \cup {[what |-> what, ctx |-> ctx]}

\* arpCheck when resolveAnyP2pClientFromArp is looked at within the flow only
NoArpCheck ==
    [rows |-> <<>>, ok |-> FALSE, applied |-> FALSE, result |-> Null]

NoTimer == 0 - 1

\* the flow before the caller's first call
FlowInit ==
    /\ flowNo = 0
    /\ pc = "INIT"
    /\ connectAttempt = 1
    /\ attempt = 1
    /\ timer = NoTimer
    /\ waited = 0
    /\ discoverPending = 0
    /\ discoverLog = "none"
    /\ group = "none"
    /\ targetClient = Null
    /\ clientIp = Null
    /\ retryArp = 0
    /\ lastArpRead = "none"
    /\ stageLog = <<>>
    /\ batchStart = 0
    /\ inflight = {}
    /\ reached = {}
    /\ batchLog = <<>>
    /\ connectLog = <<>>
    /\ connectErrors = 0
    /\ discoverCalls = 0
    /\ removeGroup = "none"
    /\ onConnectedCalls = <<>>
    /\ onFailureCalls = <<>>
    /\ resolvedBefore = Null
    /\ firstReached = 0
    /\ ctxSeen = {}

Init ==
    /\ FlowInit
    /\ arpCheck = NoArpCheck
    /\ patch = NoPatch

\* ------------------------------------------------------------------ clock
\* delay(ms): the coroutine resumes when the delay has elapsed
StartDelay(ms) ==
    /\ timer' = ms
    /\ waited' = 0

DelayElapsed == timer = 0

StopTimer == timer' = NoTimer /\ UNCHANGED waited

Tick ==
    /\ timer > 0
    /\ timer' = IF timer > TickMs THEN timer - TickMs ELSE 0
    /\ waited' = waited + (IF timer > TickMs THEN TickMs ELSE timer)
    /\ UNCHANGED <<flowNo, pc, connVars, discVars, group, groupVars,
                   clientIp, arpVars, stageLog, scanVars, removeGroup,
                   callVars, resolvedBefore, ctxSeen, arpCheck, patch>>

\* --------------------------------------------------- ConnectionEstablisher
\* fun initiateConnection(deviceAddress, onConnected, onFailure,
\*                        connectAttempt): manager.connect(...) is issued
initiateConnection(a) ==
    /\ pc' = "CONNECTING"
    /\ connectAttempt' = a
    /\ connectLog' = Append(connectLog, [attempt |-> a, waited |-> waited])

\* the caller's call, also again after a flow has ended
CallInitiateConnection ==
    /\ pc \in {"INIT", "SUCCESS", "FAILED"}
    /\ flowNo < MaxFlows
    /\ flowNo' = flowNo + 1
    /\ resolvedBefore' = IF onConnectedCalls # <<>>
                         THEN Some(onConnectedCalls[Len(onConnectedCalls)])
                         ELSE resolvedBefore
    /\ pc' = "CONNECTING"
    /\ connectAttempt' = 1
    /\ connectLog' = <<[attempt |-> 1, waited |-> 0]>>
    /\ connectErrors' = 0
    /\ discoverCalls' = 0
    /\ attempt' = 1
    /\ targetClient' = Null
    /\ clientIp' = Null
    /\ retryArp' = 0
    /\ lastArpRead' = "none"
    /\ stageLog' = <<>>
    /\ batchStart' = 0
    /\ inflight' = {}
    /\ reached' = {}
    /\ firstReached' = 0
    /\ batchLog' = <<>>
    /\ removeGroup' = "none"
    /\ onConnectedCalls' = <<>>
    /\ onFailureCalls' = <<>>
    /\ ctxSeen' = {}
    /\ UNCHANGED <<timeVars, discVars, group, arpCheck, patch>>

\* getErrorMessage(code)
getErrorMessage(code) ==
    IF code = 2 THEN "BUSY" ELSE "ERROR"

\* the retry of the connect listener's onFailure:
\*   manager.discoverPeers(channel, listener)
\*   scope.launch { delay(PEER_REDISCOVERY_DELAY_MS); withContext(Main) {
\*       initiateConnection(deviceAddress, ..., connectAttempt + 1) } }
\* variant: the retry still waits the old connect retry delay
retryDelay_Old == CONNECT_RETRY_DELAY_MS

retryDelay == PEER_REDISCOVERY_DELAY_MS

\* variant: the retry passes the attempt number on unchanged
nextConnectAttempt_Same == connectAttempt

nextConnectAttempt == connectAttempt + 1

RefreshAndScheduleRetry ==
    /\ discoverPending' = discoverPending + 1
    /\ discoverCalls' = discoverCalls + 1
    /\ StartDelay(retryDelay)
    /\ pc' = "REDISCOVERING"
    /\ UNCHANGED <<connectAttempt, connectLog, discoverLog, callVars>>

\* connect listener onFailure(code)
ConnectError ==
    /\ pc = "CONNECTING"
    /\ connectErrors' = connectErrors + 1
    /\ \E code \in ErrorCodes :
         IF connectAttempt < MAX_CONNECT_RETRIES
         THEN RefreshAndScheduleRetry
         ELSE /\ onFailureCalls' =
                    Append(onFailureCalls, getErrorMessage(code))
              /\ pc' = "FAILED"
              /\ UNCHANGED <<connectAttempt, connectLog, discoverCalls,
                             discVars, timeVars, onConnectedCalls>>
    /\ ctxSeen' = IF connectAttempt < MAX_CONNECT_RETRIES THEN ctxSeen
                ELSE Seen("onFailure", ListenerContext)
    /\ UNCHANGED <<flowNo, group, groupVars, clientIp, arpVars, stageLog,
                   scanVars, removeGroup, resolvedBefore, arpCheck, patch>>

\* variant: the retry waits for the answer of discoverPeers
ConnectRetry_AfterDiscovery ==
    /\ pc = "REDISCOVERING"
    /\ DelayElapsed
    /\ discoverPending = 0
    /\ initiateConnection(nextConnectAttempt)
    /\ StopTimer
    /\ ctxSeen' = Seen("initiateConnection", MainContext)
    /\ UNCHANGED <<flowNo, connectErrors, discoverCalls, discVars, group,
                   groupVars, clientIp, arpVars, stageLog, scanVars,
                   removeGroup, callVars, resolvedBefore, arpCheck, patch>>

\* the delay of the retry coroutine has elapsed
ConnectRetry ==
    /\ pc = "REDISCOVERING"
    /\ DelayElapsed
    /\ initiateConnection(nextConnectAttempt)
    /\ StopTimer
    /\ ctxSeen' = Seen("initiateConnection", MainContext)
    /\ UNCHANGED <<flowNo, connectErrors, discoverCalls, discVars, group,
                   groupVars, clientIp, arpVars, stageLog, scanVars,
                   removeGroup, callVars, resolvedBefore, arpCheck, patch>>

\* discoverPeers listener: both outcomes are logged only
DiscoverPeersSuccess ==
    /\ discoverPending > 0
    /\ discoverPending' = discoverPending - 1
    /\ discoverLog' = "triggered"
    /\ UNCHANGED <<flowNo, pc, connVars, timeVars, group, groupVars,
                   clientIp, arpVars, stageLog, scanVars, removeGroup,
                   callVars, resolvedBefore, ctxSeen, arpCheck, patch>>

DiscoverPeersFailure ==
    /\ discoverPending > 0
    /\ discoverPending' = discoverPending - 1
    /\ discoverLog' = "failed"
    /\ UNCHANGED <<flowNo, pc, connVars, timeVars, group, groupVars,
                   clientIp, arpVars, stageLog, scanVars, removeGroup,
                   callVars, resolvedBefore, ctxSeen, arpCheck, patch>>

\* --------------------------------------------------- GroupFormationWatcher
\* connect listener onSuccess: resolveClientIpFromGroup(..., attempt = 1)
\* issues manager.requestGroupInfo
ConnectSuccess ==
    /\ pc = "CONNECTING"
    /\ pc' = "GROUP_INFO"
    /\ attempt' = 1
    /\ UNCHANGED <<flowNo, connVars, discVars, timeVars, group, targetClient,
                   clientIp, arpVars, stageLog, scanVars, removeGroup,
                   callVars, resolvedBefore, ctxSeen, arpCheck, patch>>

\* requestGroupInfo answered null: "Group info null, retrying"
\*   scope.launch { delay(CONNECTION_RETRY_DELAY_MS)
\*                  resolveClientIpFromGroup(..., attempt + 1) }
nextGroupAttempt == attempt + 1

\* the retry has no bound of its own
GroupInfoNull ==
    /\ pc = "GROUP_INFO"
    /\ StartDelay(CONNECTION_RETRY_DELAY_MS)
    /\ pc' = "GROUP_RETRY"
    /\ UNCHANGED <<flowNo, connVars, discVars, group, groupVars, clientIp,
                   arpVars, stageLog, scanVars, removeGroup, callVars,
                   resolvedBefore, ctxSeen, arpCheck, patch>>

\* the delay of the retry coroutine has elapsed; no code reads the attempt
\* number, the model follows it up to MaxGroupAttempts and keeps it there
GroupInfoRetry ==
    /\ pc = "GROUP_RETRY"
    /\ DelayElapsed
    /\ attempt' = IF nextGroupAttempt <= MaxGroupAttempts
                  THEN nextGroupAttempt ELSE attempt
    /\ pc' = "GROUP_INFO"
    /\ StopTimer
    /\ ctxSeen' = Seen("resolveClientIpFromGroup", ScopeContext)
    /\ UNCHANGED <<flowNo, connVars, discVars, group, targetClient, clientIp,
                   arpVars, stageLog, scanVars, removeGroup, callVars,
                   resolvedBefore, arpCheck, patch>>

\* clients.firstOrNull { it.deviceAddress == originalDeviceAddress }
RECURSIVE firstOrNull(_, _)
firstOrNull(clients, deviceAddress) ==
    IF clients = <<>> THEN Null
    ELSE IF Head(clients) = deviceAddress THEN Some(Head(clients))
    ELSE firstOrNull(Tail(clients), deviceAddress)

\* requestGroupInfo answered with the group: the client is located and the
\* resolution coroutine is launched, or the flow fails at once
GroupInfoAvailable ==
    /\ pc = "GROUP_INFO"
    /\ group' = "formed"
    /\ \E clients \in ClientLists :
         /\ targetClient' = firstOrNull(clients, PEER_DEVICE)
         /\ IF targetClient' = Null
            THEN /\ onFailureCalls' =
                       Append(onFailureCalls, "Client not found")
                 /\ pc' = "FAILED"
                 /\ UNCHANGED <<timeVars, onConnectedCalls>>
            ELSE /\ StartDelay(DHCP_SETTLE_DELAY_MS)
                 /\ pc' = "SETTLE"
                 /\ UNCHANGED callVars
    /\ ctxSeen' = IF targetClient' = Null
                THEN Seen("onFailure", ListenerContext)
                ELSE ctxSeen
    /\ UNCHANGED <<flowNo, connVars, discVars, attempt, clientIp, arpVars,
                   stageLog, scanVars, removeGroup,
                   resolvedBefore, arpCheck, patch>>

\* --------------------------------------------------- ClientAddressResolver
ReadKind(read) ==
    IF ~read.ok THEN "unreadable"
    ELSE IF read.text \in MalformedTexts THEN "malformed"
    ELSE "ok"

\* a stage of the resolution, with its result and the ms the coroutine had
\* spent in its last delay() when the stage ran
Stage(name, ip) == [stage |-> name, ip |-> ip, waited |-> waited]

\* the coroutine leaves the stages: if (clientIp != null) ... else ...
\* after delay(DHCP_SETTLE_DELAY_MS):
\*   var clientIp = resolveIpFromArp(targetClient.deviceAddress)
MacArpLookup ==
    /\ pc = "SETTLE"
    /\ DelayElapsed
    /\ StopTimer
    /\ \E read \in ArpReads :
         /\ clientIp' = resolveIpFromArp(read, targetClient[1])
         /\ lastArpRead' = ReadKind(read)
    /\ stageLog' = Append(stageLog, Stage("MAC_ARP", clientIp'))
    /\ pc' = "MAC_ARP_DONE"
    /\ ctxSeen' = Seen("readArp", ScopeContext)
    /\ UNCHANGED <<flowNo, connVars, discVars, group, groupVars, retryArp,
                   scanVars, removeGroup, callVars,
                   resolvedBefore, arpCheck, patch>>

\* variant: the MAC-free lookup runs without the null test
MacFreeArpLookup_Always ==
    /\ pc = "MAC_ARP_DONE"
    /\ \E read \in ArpReads :
         /\ clientIp' = resolveAnyP2pClientFromArp(read)
         /\ lastArpRead' = ReadKind(read)
    /\ stageLog' = Append(stageLog, Stage("MAC_FREE_ARP", clientIp'))
    /\ pc' = "MAC_FREE_DONE"
    /\ ctxSeen' = Seen("readArp", ScopeContext)
    /\ UNCHANGED <<flowNo, connVars, discVars, timeVars, group, groupVars,
                   retryArp, scanVars, removeGroup, callVars, resolvedBefore,
                   arpCheck, patch>>

\* if (clientIp == null) { clientIp = resolveAnyP2pClientFromArp() }
MacFreeArpLookup ==
    /\ pc = "MAC_ARP_DONE"
    /\ IF clientIp = Null
       THEN /\ \E read \in ArpReads :
                 /\ clientIp' = resolveAnyP2pClientFromArp(read)
                 /\ lastArpRead' = ReadKind(read)
            /\ stageLog' = Append(stageLog, Stage("MAC_FREE_ARP", clientIp'))
       ELSE UNCHANGED <<clientIp, lastArpRead, stageLog>>
    /\ pc' = "MAC_FREE_DONE"
    /\ ctxSeen' = IF clientIp = Null THEN Seen("readArp", ScopeContext)
                ELSE ctxSeen
    /\ UNCHANGED <<flowNo, connVars, discVars, timeVars, group, groupVars,
                   retryArp, scanVars, removeGroup, callVars, resolvedBefore,
                   arpCheck, patch>>

\* if (clientIp == null) { for (retryArp in 1..3) { delay(2000L) ...
ArpRetryEnter ==
    /\ pc = "MAC_FREE_DONE"
    /\ IF clientIp = Null
       THEN /\ retryArp' = 1
            /\ StartDelay(ARP_RETRY_DELAY_MS)
            /\ pc' = "ARP_RETRY"
       ELSE /\ pc' = "ARP_RETRY_DONE"
            /\ UNCHANGED <<retryArp, timeVars>>
    /\ UNCHANGED <<flowNo, connVars, discVars, group, groupVars, clientIp,
                   lastArpRead, stageLog, scanVars, removeGroup, callVars,
                   resolvedBefore, ctxSeen, arpCheck, patch>>

\* variant: the retry loop has no break
ArpRetryLookup_NoBreak ==
    /\ pc = "ARP_RETRY"
    /\ DelayElapsed
    /\ \E read \in ArpReads :
         /\ clientIp' = resolveAnyP2pClientFromArp(read)
         /\ lastArpRead' = ReadKind(read)
    /\ stageLog' = Append(stageLog, Stage("ARP_RETRY", clientIp'))
    /\ IF retryArp < ARP_RETRY_COUNT
       THEN /\ retryArp' = retryArp + 1
            /\ StartDelay(ARP_RETRY_DELAY_MS)
            /\ pc' = "ARP_RETRY"
       ELSE /\ pc' = "ARP_RETRY_DONE"
            /\ StopTimer
            /\ UNCHANGED retryArp
    /\ ctxSeen' = Seen("readArp", ScopeContext)
    /\ UNCHANGED <<flowNo, connVars, discVars, group, groupVars, scanVars,
                   removeGroup, callVars, resolvedBefore, arpCheck, patch>>

\* variant: the repeat does not wait for its delay
ArpRetryLookup_NoWait ==
    /\ pc = "ARP_RETRY"
    /\ \E read \in ArpReads :
         /\ clientIp' = resolveAnyP2pClientFromArp(read)
         /\ lastArpRead' = ReadKind(read)
    /\ stageLog' = Append(stageLog, Stage("ARP_RETRY", clientIp'))
    /\ IF clientIp' = Null /\ retryArp < ARP_RETRY_COUNT
       THEN /\ retryArp' = retryArp + 1
            /\ StartDelay(ARP_RETRY_DELAY_MS)
            /\ pc' = "ARP_RETRY"
       ELSE /\ pc' = "ARP_RETRY_DONE"
            /\ StopTimer
            /\ UNCHANGED retryArp
    /\ ctxSeen' = Seen("readArp", ScopeContext)
    /\ UNCHANGED <<flowNo, connVars, discVars, group, groupVars, scanVars,
                   removeGroup, callVars, resolvedBefore, arpCheck, patch>>

\*   clientIp = resolveAnyP2pClientFromArp(); if (clientIp != null) break }
ArpRetryLookup ==
    /\ pc = "ARP_RETRY"
    /\ DelayElapsed
    /\ \E read \in ArpReads :
         /\ clientIp' = resolveAnyP2pClientFromArp(read)
         /\ lastArpRead' = ReadKind(read)
    /\ stageLog' = Append(stageLog, Stage("ARP_RETRY", clientIp'))
    /\ IF clientIp' = Null /\ retryArp < ARP_RETRY_COUNT
       THEN /\ retryArp' = retryArp + 1
            /\ StartDelay(ARP_RETRY_DELAY_MS)
            /\ pc' = "ARP_RETRY"
       ELSE /\ pc' = "ARP_RETRY_DONE"
            /\ StopTimer
            /\ UNCHANGED retryArp
    /\ ctxSeen' = Seen("readArp", ScopeContext)
    /\ UNCHANGED <<flowNo, connVars, discVars, group, groupVars, scanVars,
                   removeGroup, callVars, resolvedBefore, arpCheck, patch>>

\* ------------------------------------------------------------ SubnetScanner
\* variant: the end of the batch is not cut at the last host
batchEnd_NoMin(b) == b + batchSize - 1

\* val batchEnd = minOf(batchStart + batchSize - 1, 254)
batchEnd(b) == IF b + batchSize - 1 < LAST_HOST THEN b + batchSize - 1
               ELSE LAST_HOST

\* for (batchStart in 2..254 step batchSize): the start after b, 0 at the end
nextBatchStart(b) == IF b + batchSize <= LAST_HOST THEN b + batchSize ELSE 0

\* val deferreds = (batchStart..batchEnd).map { i -> async { ... } }
StartBatch(b) ==
    /\ batchStart' = b
    /\ inflight' = b .. batchEnd(b)
    /\ reached' = {}
    /\ firstReached' = 0
    /\ batchLog' = Append(batchLog,
                          [start |-> b, last |-> batchEnd(b),
                           awaited |-> FALSE, results |-> <<>>])

\* if (clientIp == null) { clientIp = discoverP2pClientIp() }
ScanEnter ==
    /\ pc = "ARP_RETRY_DONE"
    /\ IF clientIp = Null
       THEN /\ StartBatch(FIRST_HOST)
            /\ pc' = "SCAN"
       ELSE /\ pc' = "RESOLVED"
            /\ UNCHANGED scanVars
    /\ ctxSeen' = IF clientIp = Null THEN Seen("isReachable", IoContext)
                ELSE ctxSeen
    /\ UNCHANGED <<flowNo, connVars, discVars, timeVars, group, groupVars,
                   clientIp, arpVars, stageLog, removeGroup, callVars,
                   resolvedBefore, arpCheck, patch>>

\* async { if (addr.isReachable(500)) candidateIp else null }
ProbeReachable ==
    /\ pc = "SCAN"
    /\ \E i \in inflight \cap CandidateHosts :
         /\ inflight' = inflight \ {i}
         /\ reached' = reached \cup {i}
         /\ firstReached' = IF firstReached = 0 THEN i ELSE firstReached
    /\ UNCHANGED <<flowNo, pc, connVars, discVars, timeVars, group,
                   groupVars, clientIp, arpVars, stageLog, batchStart,
                   batchLog, removeGroup, callVars, resolvedBefore, ctxSeen,
                   arpCheck, patch>>

\* isReachable is false or throws: the probe's value is null
ProbeUnreachable ==
    /\ pc = "SCAN"
    /\ \E i \in inflight \cap CandidateHosts :
         inflight' = inflight \ {i}
    /\ UNCHANGED <<flowNo, pc, connVars, discVars, timeVars, group,
                   groupVars, clientIp, arpVars, stageLog, batchStart,
                   reached, firstReached, batchLog, removeGroup, callVars,
                   resolvedBefore, ctxSeen, arpCheck, patch>>

\* the silent hosts of the batch reach the 500 ms timeout together
ProbeTimeout ==
    /\ pc = "SCAN"
    /\ inflight \ CandidateHosts # {}
    /\ inflight' = inflight \cap CandidateHosts
    /\ UNCHANGED <<flowNo, pc, connVars, discVars, timeVars, group,
                   groupVars, clientIp, arpVars, stageLog, batchStart,
                   reached, firstReached, batchLog, removeGroup, callVars,
                   resolvedBefore, ctxSeen, arpCheck, patch>>

\* deferreds.mapNotNull { it.await() }: the non-null values in host order
RECURSIVE mapNotNull(_, _, _)
mapNotNull(i, last, hosts) ==
    IF i > last THEN <<>>
    ELSE (IF i \in hosts THEN <<candidateIp(i)>> ELSE <<>>)
         \o mapNotNull(i + 1, last, hosts)

\* variant: the scan never returns early
scanFound_Never(results) == FALSE

\* if (results.isNotEmpty()) return@withContext results.first()
scanFound(results) == results # <<>>

\* variant: the results are inspected without awaiting every probe
AwaitBatch_NoJoin ==
    /\ pc = "SCAN"
    /\ LET results == mapNotNull(batchStart, batchEnd(batchStart), reached)
           done == [batchLog EXCEPT ![Len(batchLog)] =
                       [start |-> batchStart, last |-> batchEnd(batchStart),
                        awaited |-> TRUE, results |-> results]]
       IN  IF scanFound(results)
           THEN /\ clientIp' = Some(Head(results))
                /\ stageLog' = Append(stageLog, Stage("SUBNET_SCAN", clientIp'))
                /\ batchLog' = done
                /\ pc' = "RESOLVED"
                /\ UNCHANGED <<batchStart, inflight, reached, firstReached>>
           ELSE IF nextBatchStart(batchStart) # 0
           THEN /\ batchStart' = nextBatchStart(batchStart)
                /\ inflight' = inflight \cup (batchStart' .. batchEnd(batchStart'))
                /\ reached' = {}
                /\ firstReached' = 0
                /\ batchLog' = Append(done, [start |-> batchStart',
                                  last |-> batchEnd(batchStart'),
                                  awaited |-> FALSE, results |-> <<>>])
                /\ UNCHANGED <<pc, clientIp, stageLog>>
           ELSE /\ clientIp' = Null
                /\ stageLog' = Append(stageLog, Stage("SUBNET_SCAN", Null))
                /\ batchLog' = done
                /\ pc' = "RESOLVED"
                /\ UNCHANGED <<batchStart, inflight, reached, firstReached>>
    /\ UNCHANGED <<flowNo, connVars, discVars, timeVars, group, groupVars,
                   arpVars, removeGroup, callVars, resolvedBefore, ctxSeen,
                   arpCheck, patch>>

\* variant: the address of the probe that answered first is returned
AwaitBatch_FirstCompleted ==
    /\ pc = "SCAN"
    /\ inflight = {}
    /\ LET results == mapNotNull(batchStart, batchEnd(batchStart), reached)
           done == [batchLog EXCEPT ![Len(batchLog)] =
                       [start |-> batchStart, last |-> batchEnd(batchStart),
                        awaited |-> TRUE, results |-> results]]
       IN  IF scanFound(results)
           THEN /\ clientIp' = Some(candidateIp(firstReached))
                /\ stageLog' = Append(stageLog, Stage("SUBNET_SCAN", clientIp'))
                /\ batchLog' = done
                /\ pc' = "RESOLVED"
                /\ UNCHANGED <<batchStart, inflight, reached, firstReached>>
           ELSE IF nextBatchStart(batchStart) # 0
           THEN /\ batchStart' = nextBatchStart(batchStart)
                /\ inflight' = batchStart' .. batchEnd(batchStart')
                /\ reached' = {}
                /\ firstReached' = 0
                /\ batchLog' = Append(done, [start |-> batchStart',
                                  last |-> batchEnd(batchStart'),
                                  awaited |-> FALSE, results |-> <<>>])
                /\ UNCHANGED <<pc, clientIp, stageLog>>
           ELSE /\ clientIp' = Null
                /\ stageLog' = Append(stageLog, Stage("SUBNET_SCAN", Null))
                /\ batchLog' = done
                /\ pc' = "RESOLVED"
                /\ UNCHANGED <<batchStart, inflight, reached, firstReached>>
    /\ UNCHANGED <<flowNo, connVars, discVars, timeVars, group, groupVars,
                   arpVars, removeGroup, callVars, resolvedBefore, ctxSeen,
                   arpCheck, patch>>

\* every probe of the batch is awaited, the results are inspected and the
\* loop returns or goes on with the next batch
AwaitBatch ==
    /\ pc = "SCAN"
    /\ inflight = {}
    /\ LET results == mapNotNull(batchStart, batchEnd(batchStart), reached)
           done == [batchLog EXCEPT ![Len(batchLog)] =
                       [start |-> batchStart, last |-> batchEnd(batchStart),
                        awaited |-> TRUE, results |-> results]]
       IN  IF scanFound(results)
           THEN /\ clientIp' = Some(Head(results))
                /\ stageLog' = Append(stageLog, Stage("SUBNET_SCAN", clientIp'))
                /\ batchLog' = done
                /\ pc' = "RESOLVED"
                /\ UNCHANGED <<batchStart, inflight, reached, firstReached>>
           ELSE IF nextBatchStart(batchStart) # 0
           THEN /\ batchStart' = nextBatchStart(batchStart)
                /\ inflight' = batchStart' .. batchEnd(batchStart')
                /\ reached' = {}
                /\ firstReached' = 0
                /\ batchLog' = Append(done, [start |-> batchStart',
                                  last |-> batchEnd(batchStart'),
                                  awaited |-> FALSE, results |-> <<>>])
                /\ UNCHANGED <<pc, clientIp, stageLog>>
           ELSE /\ clientIp' = Null
                /\ stageLog' = Append(stageLog, Stage("SUBNET_SCAN", Null))
                /\ batchLog' = done
                /\ pc' = "RESOLVED"
                /\ UNCHANGED <<batchStart, inflight, reached, firstReached>>
    /\ UNCHANGED <<flowNo, connVars, discVars, timeVars, group, groupVars,
                   arpVars, removeGroup, callVars, resolvedBefore, ctxSeen,
                   arpCheck, patch>>

\* ------------------------------------------------------ result of the flow
\* variant: the result is reported twice
ReportConnected_Twice ==
    /\ pc = "RESOLVED"
    /\ clientIp # Null
    /\ onConnectedCalls' = onConnectedCalls \o <<clientIp[1], clientIp[1]>>
    /\ pc' = "SUCCESS"
    /\ ctxSeen' = Seen("onConnected", MainContext)
    /\ UNCHANGED <<flowNo, connVars, discVars, timeVars, group, groupVars,
                   clientIp, arpVars, stageLog, scanVars, removeGroup,
                   onFailureCalls, resolvedBefore, arpCheck, patch>>

\* variant: the teardown is not in the else branch and follows onConnected
ReportConnected_FallThrough ==
    /\ pc = "RESOLVED"
    /\ clientIp # Null
    /\ onConnectedCalls' = Append(onConnectedCalls, clientIp[1])
    /\ removeGroup' = "requested"
    /\ pc' = "TEARDOWN"
    /\ ctxSeen' = Seen("onConnected", MainContext)
    /\ UNCHANGED <<flowNo, connVars, discVars, timeVars, group, groupVars,
                   clientIp, arpVars, stageLog, scanVars, onFailureCalls,
                   resolvedBefore, arpCheck, patch>>

\* if (clientIp != null) withContext(Dispatchers.Main) { onConnected(clientIp) }
ReportConnected ==
    /\ pc = "RESOLVED"
    /\ clientIp # Null
    /\ onConnectedCalls' = Append(onConnectedCalls, clientIp[1])
    /\ pc' = "SUCCESS"
    /\ ctxSeen' = Seen("onConnected", MainContext)
    /\ UNCHANGED <<flowNo, connVars, discVars, timeVars, group, groupVars,
                   clientIp, arpVars, stageLog, scanVars, removeGroup,
                   onFailureCalls, resolvedBefore, arpCheck, patch>>

\* variant: the failure is reported when the teardown is requested
RequestRemoveGroup_ReportFirst ==
    /\ pc = "RESOLVED"
    /\ clientIp = Null
    /\ removeGroup' = "requested"
    /\ onFailureCalls' = Append(onFailureCalls, "Could not resolve client IP")
    /\ pc' = "TEARDOWN"
    /\ ctxSeen' = Seen("removeGroup", MainContext)
                  \cup {[what |-> "onFailure", ctx |-> MainContext]}
    /\ UNCHANGED <<flowNo, connVars, discVars, timeVars, group, groupVars,
                   clientIp, arpVars, stageLog, scanVars, onConnectedCalls,
                   resolvedBefore, arpCheck, patch>>

\* variant: the failure is reported and the group is left as it is
RequestRemoveGroup_NoTeardown ==
    /\ pc = "RESOLVED"
    /\ clientIp = Null
    /\ onFailureCalls' = Append(onFailureCalls, "Could not resolve client IP")
    /\ pc' = "FAILED"
    /\ ctxSeen' = Seen("onFailure", MainContext)
    /\ UNCHANGED <<flowNo, connVars, discVars, timeVars, group, groupVars,
                   clientIp, arpVars, stageLog, scanVars, removeGroup,
                   onConnectedCalls, resolvedBefore, arpCheck, patch>>

\* else withContext(Dispatchers.Main) { manager.removeGroup(channel, ...) }
RequestRemoveGroup ==
    /\ pc = "RESOLVED"
    /\ clientIp = Null
    /\ removeGroup' = "requested"
    /\ pc' = "TEARDOWN"
    /\ ctxSeen' = Seen("removeGroup", MainContext)
    /\ UNCHANGED <<flowNo, connVars, discVars, timeVars, group, groupVars,
                   clientIp, arpVars, stageLog, scanVars, callVars,
                   resolvedBefore, arpCheck, patch>>

\* override fun onSuccess() { onFailure("Could not resolve client IP") }
RemoveGroupSuccess ==
    /\ pc = "TEARDOWN"
    /\ group' = "none"
    /\ removeGroup' = "success"
    /\ onFailureCalls' = Append(onFailureCalls, "Could not resolve client IP")
    /\ pc' = "FAILED"
    /\ ctxSeen' = Seen("onFailure", ListenerContext)
    /\ UNCHANGED <<flowNo, connVars, discVars, timeVars, groupVars, clientIp,
                   arpVars, stageLog, scanVars, onConnectedCalls,
                   resolvedBefore, arpCheck, patch>>

\* variant: a failed teardown is logged only
RemoveGroupFailure_Silent ==
    /\ pc = "TEARDOWN"
    /\ removeGroup' = "failure"
    /\ pc' = "FAILED"
    /\ UNCHANGED <<flowNo, connVars, discVars, timeVars, group, groupVars,
                   clientIp, arpVars, stageLog, scanVars, callVars,
                   resolvedBefore, ctxSeen, arpCheck, patch>>

\* override fun onFailure(code: Int) {
\*     onFailure("Could not resolve client IP, cleanup failed") }
RemoveGroupFailure ==
    /\ pc = "TEARDOWN"
    /\ removeGroup' = "failure"
    /\ onFailureCalls' =
           Append(onFailureCalls, "Could not resolve client IP, cleanup failed")
    /\ pc' = "FAILED"
    /\ ctxSeen' = Seen("onFailure", ListenerContext)
    /\ UNCHANGED <<flowNo, connVars, discVars, timeVars, group, groupVars,
                   clientIp, arpVars, stageLog, scanVars, onConnectedCalls,
                   resolvedBefore, arpCheck, patch>>

\* ------------------------------------------------------- the specification
Next ==
    \/ CallInitiateConnection
    \/ ConnectSuccess
    \/ ConnectError
    \/ ConnectRetry
    \/ DiscoverPeersSuccess
    \/ DiscoverPeersFailure
    \/ Tick
    \/ GroupInfoNull
    \/ GroupInfoRetry
    \/ GroupInfoAvailable
    \/ MacArpLookup
    \/ MacFreeArpLookup
    \/ ArpRetryEnter
    \/ ArpRetryLookup
    \/ ScanEnter
    \/ ProbeReachable
    \/ ProbeUnreachable
    \/ ProbeTimeout
    \/ AwaitBatch
    \/ ReportConnected
    \/ RequestRemoveGroup
    \/ RemoveGroupSuccess
    \/ RemoveGroupFailure

Spec == Init /\ [][Next]_vars

\* ----------------------------------------------------------- fair schedule
\* the steps of a flow that is under way: the timers fire, the coroutines
\* run, and the platform answers connect, requestGroupInfo, removeGroup and
\* the probes with one of its answers.  Nothing obliges the platform to
\* answer discoverPeers, nor the caller to call again.
FlowStep ==
    \/ ConnectSuccess
    \/ ConnectError
    \/ ConnectRetry
    \/ Tick
    \/ GroupInfoNull
    \/ GroupInfoRetry
    \/ GroupInfoAvailable
    \/ MacArpLookup
    \/ MacFreeArpLookup
    \/ ArpRetryEnter
    \/ ArpRetryLookup
    \/ ScanEnter
    \/ ProbeReachable
    \/ ProbeUnreachable
    \/ ProbeTimeout
    \/ AwaitBatch
    \/ ReportConnected
    \/ RequestRemoveGroup
    \/ RemoveGroupSuccess
    \/ RemoveGroupFailure

FairSpec == Spec /\ WF_vars(FlowStep)

\* ------------------------------------- resolveAnyP2pClientFromArp alone
\* the function is given a table, or a read that throws, and is called once
flowVars ==
    <<flowNo, pc, connVars, discVars, timeVars, group, groupVars, clientIp,
      arpVars, stageLog, scanVars, removeGroup, callVars, resolvedBefore,
      ctxSeen>>

ArpInit ==
    /\ FlowInit
    /\ \E rows \in ArpCheckRows, ok \in BOOLEAN :
         arpCheck = [rows |-> rows, ok |-> ok, applied |-> FALSE,
                     result |-> Null]
    /\ patch = NoPatch

ArpLookup ==
    /\ ~arpCheck.applied
    /\ arpCheck' =
         [arpCheck EXCEPT
            !.applied = TRUE,
            !.result = resolveAnyP2pClientFromArp(
                           IF arpCheck.ok
                           THEN Readable(ArpTableText(arpCheck.rows))
                           ELSE Unreadable)]
    /\ UNCHANGED <<flowVars, patch>>

ArpNext == ArpLookup

ArpSpec == ArpInit /\ [][ArpNext]_vars

\* ------------------------------------------------- the patch scripts alone
\* a script is run once on a file: open(filepath, 'rb'), the fixes in
\* memory, open(filepath, 'wb') at the end
PatchInit ==
    /\ FlowInit
    /\ arpCheck = NoArpCheck
    /\ \E script \in Scripts, file \in TargetFiles :
         patch = [script |-> script, pc |-> "read", orig |-> file,
                  disk |-> file, lines |-> file]

\* the script goes on with the lines of the fix, or ends: sys.exit(1), or
\* an exception that nothing catches
Advance(result, done) ==
    patch' = IF result.status = "ok"
             THEN [patch EXCEPT !.lines = result.lines, !.pc = done]
             ELSE [patch EXCEPT !.pc = result.status]

At(script, place) == patch.script = script /\ patch.pc = place

\* with open(filepath, 'wb') as f: f.write(content.encode('utf-8'))
WriteBack ==
    patch' = [patch EXCEPT !.disk = patch.lines, !.pc = "written"]

CmFix1 ==
    /\ At("fix_connection_manager", "read")
    /\ Advance(cmFix1(patch.lines), "fix1")
    /\ UNCHANGED <<flowVars, arpCheck>>

CmFix2 ==
    /\ At("fix_connection_manager", "fix1")
    /\ Advance(cmFix2(patch.lines), "fix2")
    /\ UNCHANGED <<flowVars, arpCheck>>

CmFix3 ==
    /\ At("fix_connection_manager", "fix2")
    /\ Advance(cmFix3(patch.lines), "fix3")
    /\ UNCHANGED <<flowVars, arpCheck>>

CmWrite ==
    /\ At("fix_connection_manager", "fix3")
    /\ WriteBack
    /\ UNCHANGED <<flowVars, arpCheck>>

V2Fix1 ==
    /\ At("fix_go_ip_v2", "read")
    /\ Advance(v2Fix1(patch.lines), "fix1")
    /\ UNCHANGED <<flowVars, arpCheck>>

V2Fix2 ==
    /\ At("fix_go_ip_v2", "fix1")
    /\ Advance(v2Fix2(patch.lines), "fix2")
    /\ UNCHANGED <<flowVars, arpCheck>>

V2Fix3 ==
    /\ At("fix_go_ip_v2", "fix2")
    /\ Advance(v2Fix3(patch.lines), "fix3")
    /\ UNCHANGED <<flowVars, arpCheck>>

V2Write ==
    /\ At("fix_go_ip_v2", "fix3")
    /\ WriteBack
    /\ UNCHANGED <<flowVars, arpCheck>>

V3Step1 ==
    /\ At("fix_go_ip_v3", "read")
    /\ Advance(v3Step1(patch.lines), "step1")
    /\ UNCHANGED <<flowVars, arpCheck>>

V3Step2 ==
    /\ At("fix_go_ip_v3", "step1")
    /\ Advance(v3Step2(patch.lines), "step2")
    /\ UNCHANGED <<flowVars, arpCheck>>

V3Write ==
    /\ At("fix_go_ip_v3", "step2")
    /\ WriteBack
    /\ UNCHANGED <<flowVars, arpCheck>>

PatchNext ==
    \/ CmFix1
    \/ CmFix2
    \/ CmFix3
    \/ CmWrite
    \/ V2Fix1
    \/ V2Fix2
    \/ V2Fix3
    \/ V2Write
    \/ V3Step1
    \/ V3Step2
    \/ V3Write

PatchSpec == PatchInit /\ [][PatchNext]_vars

TypeOK ==
    /\ flowNo \in 0 .. MaxFlows
    /\ connectAttempt \in 1 .. MAX_CONNECT_RETRIES
    /\ attempt \in 1 .. MaxGroupAttempts
    /\ timer \in NoTimer .. PEER_REDISCOVERY_DELAY_MS
    /\ group \in {"none", "formed"}
    /\ retryArp \in 0 .. ARP_RETRY_COUNT
    /\ inflight \subseteq FIRST_HOST .. LAST_HOST
    /\ reached \subseteq CandidateHosts

\* ================================================================= claims
ConnectFailureMessages == {getErrorMessage(code) : code \in ErrorCodes}
ResolveFailureMessages ==
    {"Could not resolve client IP",
     "Could not resolve client IP, cleanup failed"}

\* C1: a connect error on an attempt below MAX_CONNECT_RETRIES makes exactly
\* one discoverPeers call and schedules exactly one retry, with the next
\* attempt number, which starts only when PEER_REDISCOVERY_DELAY_MS have
\* elapsed since the error: the connect calls of a flow carry the attempt
\* numbers 1, 2, ..., each retry has waited the delay, and there is one
\* discoverPeers call per error that was retried.
C1_RetryAfterRediscovery ==
    flowNo >= 1 =>
      /\ \A i \in 1 .. Len(connectLog) : connectLog[i].attempt = i
      /\ \A i \in 2 .. Len(connectLog) :
           connectLog[i].waited >= PEER_REDISCOVERY_DELAY_MS
      /\ discoverCalls = IF pc = "REDISCOVERING" THEN Len(connectLog)
                         ELSE Len(connectLog) - 1
      /\ pc = "REDISCOVERING" =>
           /\ connectErrors = connectAttempt
           /\ connectAttempt < MAX_CONNECT_RETRIES
           /\ timer # NoTimer
           /\ timer + waited = PEER_REDISCOVERY_DELAY_MS

\* the second retry of a flow has started
C1_Witness ==
    /\ pc = "CONNECTING"
    /\ connectAttempt = MAX_CONNECT_RETRIES
    /\ discoverCalls = MAX_CONNECT_RETRIES - 1
    /\ connectLog[Len(connectLog)].waited = PEER_REDISCOVERY_DELAY_MS

\* C2: after exactly MAX_CONNECT_RETRIES connect errors of a flow onFailure
\* has fired exactly once, the flow is FAILED, no retry is pending and no
\* connect or discoverPeers call beyond those of the attempts was issued;
\* with fewer errors the connect failure is not reported.
C2_FailureAfterMaxRetries ==
    /\ connectErrors <= MAX_CONNECT_RETRIES
    /\ connectErrors = MAX_CONNECT_RETRIES =>
         /\ pc = "FAILED"
         /\ Len(onFailureCalls) = 1
         /\ onFailureCalls[1] \in ConnectFailureMessages
         /\ onConnectedCalls = <<>>
         /\ timer = NoTimer
         /\ Len(connectLog) = MAX_CONNECT_RETRIES
         /\ discoverCalls = MAX_CONNECT_RETRIES - 1
    /\ connectErrors < MAX_CONNECT_RETRIES =>
         \A i \in 1 .. Len(onFailureCalls) :
           onFailureCalls[i] \notin ConnectFailureMessages

\* the last attempt has failed
C2_Witness ==
    /\ connectErrors = MAX_CONNECT_RETRIES
    /\ pc = "FAILED"
    /\ discoverPending = 0

\* the stage result the resolver returns: the first one that is not null
RECURSIVE firstSuccess(_)
firstSuccess(log) ==
    IF log = <<>> THEN Null
    ELSE IF Head(log).ip # Null THEN Head(log).ip
    ELSE firstSuccess(Tail(log))

\* C3: onConnected is invoked at most once in a flow, exactly once in a flow
\* that ended in SUCCESS, and its argument is the IP the resolver produced,
\* whatever connect errors and group-info retries came before.
C3_OnConnectedOnce ==
    /\ Len(onConnectedCalls) <= 1
    /\ (pc = "SUCCESS") <=> (Len(onConnectedCalls) = 1)
    /\ onConnectedCalls # <<>> =>
         /\ clientIp = Some(onConnectedCalls[1])
         /\ firstSuccess(stageLog) = Some(onConnectedCalls[1])

\* a flow with a failed connect and a group-info retry has succeeded
C3_Witness ==
    /\ pc = "SUCCESS"
    /\ connectErrors >= 1
    /\ attempt >= 2
    /\ Len(onConnectedCalls) = 1

\* C4: a flow that has failed has invoked onFailure exactly once, on every
\* failure path, and no flow invokes it twice: retries exhausted (the
\* message of the error code), no matching client, resolution failed with
\* the teardown succeeding or failing.
C4_OnFailureOnce ==
    /\ Len(onFailureCalls) <= 1
    /\ (pc = "FAILED") <=> (Len(onFailureCalls) = 1)
    /\ pc = "FAILED" =>
         IF connectErrors = MAX_CONNECT_RETRIES
         THEN onFailureCalls[1] \in ConnectFailureMessages
         ELSE IF targetClient = Null
         THEN onFailureCalls[1] = "Client not found"
         ELSE /\ onFailureCalls[1] \in ResolveFailureMessages
              /\ removeGroup \in {"success", "failure"}

\* the resolution has failed and so has the teardown
C4_Witness ==
    /\ pc = "FAILED"
    /\ removeGroup = "failure"
    /\ Len(onFailureCalls) = 1

\* the stages in their order
StageOrder ==
    <<"MAC_ARP", "MAC_FREE_ARP", "ARP_RETRY", "ARP_RETRY", "ARP_RETRY",
      "SUBNET_SCAN">>

\* C5: the stages run in the order MAC-based ARP, MAC-free ARP, ARP retry,
\* subnet scan; a stage runs only when every stage before it has returned
\* null, and clientIp is the value of the earliest stage that succeeded.
C5_StagePrecedence ==
    /\ Len(stageLog) <= Len(StageOrder)
    /\ \A i \in 1 .. Len(stageLog) :
         /\ stageLog[i].stage = StageOrder[i]
         /\ i < Len(stageLog) => stageLog[i].ip = Null
    /\ clientIp = firstSuccess(stageLog)
    /\ pc \in {"RESOLVED", "SUCCESS", "TEARDOWN"} =>
         /\ stageLog # <<>>
         /\ clientIp = stageLog[Len(stageLog)].ip
         /\ clientIp = Null => Len(stageLog) = Len(StageOrder)

\* the second ARP retry is the first stage to succeed
C5_Witness ==
    /\ pc = "SUCCESS"
    /\ Len(stageLog) = 4
    /\ stageLog[4].ip # Null

\* C6: the batches start at 2, 27, 52, ... in this order, a batch is started
\* only when every batch before it has been awaited and had no reachable
\* address, and every probe in flight belongs to the batch started last.
C6_BatchOrder ==
    /\ \A i \in 1 .. Len(batchLog) :
         /\ batchLog[i].start = FIRST_HOST + (i - 1) * batchSize
         /\ i < Len(batchLog) =>
              batchLog[i].awaited /\ batchLog[i].results = <<>>
    /\ batchLog # <<>> =>
         /\ batchStart = batchLog[Len(batchLog)].start
         /\ inflight \subseteq batchStart .. batchEnd(batchStart)
         /\ batchLog[Len(batchLog)].awaited => inflight = {}

\* the scan has stopped at the second batch, which had a reachable address
C6_Witness ==
    /\ Len(batchLog) = 2
    /\ batchLog[2].awaited
    /\ batchLog[2].results = <<candidateIp(40)>>
    /\ clientIp = Some(candidateIp(40))

ArpStages == {"MAC_ARP", "MAC_FREE_ARP", "ARP_RETRY"}

\* C7: an ARP lookup whose read of the cache was unreadable or malformed
\* yields no address, and the flow goes on with the next stage.
C7_BadCacheYieldsNoAddress ==
    ( /\ stageLog # <<>>
      /\ stageLog[Len(stageLog)].stage \in ArpStages
      /\ lastArpRead \in {"unreadable", "malformed"} ) =>
        /\ stageLog[Len(stageLog)].ip = Null
        /\ pc \in {"MAC_ARP_DONE", "MAC_FREE_DONE", "ARP_RETRY",
                   "ARP_RETRY_DONE", "SCAN"}

\* C8, as claimed: once an earlier resolution has delivered an IP for the
\* peer, a later one runs no settle wait and no stage and delivers the
\* same IP.
C8_SecondResolveUsesStoredIp ==
    resolvedBefore # Null =>
      /\ pc # "SETTLE"
      /\ stageLog = <<>>
      /\ batchLog = <<>>
      /\ onConnectedCalls # <<>> => onConnectedCalls[1] = resolvedBefore[1]

\* C8, amended: within one resolution run clientIp is write-once, and the
\* IP a flow delivers is the result of the last stage that flow itself ran;
\* nothing is kept from an earlier run.
C8_WriteOncePerRun ==
    [][ /\ (flowNo' = flowNo /\ clientIp # Null) => clientIp' = clientIp
        /\ (flowNo' = flowNo /\ onConnectedCalls' # onConnectedCalls) =>
             /\ stageLog # <<>>
             /\ Some(onConnectedCalls'[Len(onConnectedCalls')]) =
                   stageLog[Len(stageLog)].ip ]_vars

\* the second resolution of the peer has delivered another IP than the first
C8_Witness ==
    /\ resolvedBefore # Null
    /\ pc = "SUCCESS"
    /\ stageLog # <<>>
    /\ onConnectedCalls[1] # resolvedBefore[1]

\* the number of batches of the range
NumBatches == ((LAST_HOST - FIRST_HOST) \div batchSize) + 1

\* C9: a resolution failure is reported only when the removeGroup request
\* has completed: nothing is reported while the request is to be made or
\* pending, and the message tells whether the teardown failed.
C9_TeardownBeforeFailure ==
    /\ (removeGroup = "requested") <=> (pc = "TEARDOWN")
    /\ pc \in {"RESOLVED", "TEARDOWN"} => onFailureCalls = <<>>
    /\ \A i \in 1 .. Len(onFailureCalls) :
         onFailureCalls[i] \in ResolveFailureMessages =>
           /\ removeGroup \in {"success", "failure"}
           /\ onFailureCalls[i] =
                IF removeGroup = "success" THEN "Could not resolve client IP"
                ELSE "Could not resolve client IP, cleanup failed"
    /\ (pc = "FAILED" /\ stageLog # <<>>) =>
         /\ removeGroup \in {"success", "failure"}
         /\ onFailureCalls[1] \in ResolveFailureMessages

\* every stage has failed and the teardown error is in the message
C9_Witness ==
    /\ pc = "FAILED"
    /\ Len(batchLog) = NumBatches
    /\ removeGroup = "failure"
    /\ onFailureCalls = <<"Could not resolve client IP, cleanup failed">>

\* C10, as claimed: whenever a resolution failure has been reported, it is
\* onFailure("Could not resolve client IP"), once, and no group exists.
C10_NoResidualGroup ==
    \A i \in 1 .. Len(onFailureCalls) :
      onFailureCalls[i] \in ResolveFailureMessages =>
        /\ Len(onFailureCalls) = 1
        /\ onFailureCalls[i] = "Could not resolve client IP"
        /\ group = "none"

\* C10, amended: a resolution failure is reported exactly once, after every
\* stage up to the last batch has failed; when it is reported as
\* "Could not resolve client IP" the teardown has succeeded and no group
\* exists, and when the teardown has failed the message is
\* "Could not resolve client IP, cleanup failed".
C10_NoGroupAfterTeardown ==
    \A i \in 1 .. Len(onFailureCalls) :
      onFailureCalls[i] \in ResolveFailureMessages =>
        /\ Len(onFailureCalls) = 1
        /\ Len(stageLog) = Len(StageOrder)
        /\ Len(batchLog) = NumBatches
        /\ clientIp = Null
        /\ IF onFailureCalls[i] = "Could not resolve client IP"
           THEN removeGroup = "success" /\ group = "none"
           ELSE removeGroup = "failure"

\* the whole range was scanned in vain and the group is gone
C10_Witness ==
    /\ pc = "FAILED"
    /\ Len(batchLog) = NumBatches
    /\ onFailureCalls = <<"Could not resolve client IP">>
    /\ group = "none"

\* C11: the rediscovery is fire-and-forget.  An answer of discoverPeers,
\* success or failure, changes nothing of the flow: not its position, not
\* the retry timer, not the attempt number.  The flow leaves the wait only
\* by the retry, with the next attempt number and the whole delay elapsed.
\* And the retry does run, whatever the answer and also without one: a flow
\* that waits with attempt a reaches initiateConnection with attempt a + 1,
\* and once the delay has elapsed the retry is ready in every state of the
\* rediscovery.
C11_RetryWhateverRediscovery ==
    /\ [](pc = "REDISCOVERING" /\ DelayElapsed => ENABLED ConnectRetry)
    /\ [][/\ discoverPending' # discoverPending /\ flowNo' = flowNo
             => \/ UNCHANGED <<pc, timeVars, connectAttempt, connectLog>>
                \/ pc = "CONNECTING" /\ pc' = "REDISCOVERING"
          /\ pc = "REDISCOVERING" /\ pc' # pc
             => /\ pc' = "CONNECTING"
                /\ connectAttempt' = connectAttempt + 1
                /\ waited = PEER_REDISCOVERY_DELAY_MS]_vars
    /\ \A a \in 1 .. MAX_CONNECT_RETRIES - 1 :
         (pc = "REDISCOVERING" /\ connectAttempt = a)
            ~> (pc = "CONNECTING" /\ connectAttempt = a + 1)

\* the second retry has run: the first rediscovery had failed, the second
\* has not been answered
C11_Witness ==
    /\ pc = "CONNECTING"
    /\ connectAttempt = 3
    /\ discoverLog = "failed"
    /\ discoverPending = 1
    /\ flowNo = 1

\* C12: the attempt counters are bounded in every reachable state: the
\* connect attempt stays within 1 .. MAX_CONNECT_RETRIES, and the group-info
\* attempt never exceeds a fixed bound, that is, a request made with the
\* counter at the bound is not retried again.  The bound tried is
\* MaxGroupAttempts, whatever its value.
C12_CountersBounded ==
    /\ connectAttempt \in 1 .. MAX_CONNECT_RETRIES
    /\ pc = "GROUP_RETRY" => attempt < MaxGroupAttempts

\* C13: under the fair schedule every flow that was initiated ends in
\* onConnected or onFailure, whatever the platform answers.
C13_FlowTerminates ==
    (pc = "CONNECTING") ~> (pc \in {"SUCCESS", "FAILED"})

StagesNamed(names) ==
    {i \in 1 .. Len(stageLog) : stageLog[i].stage \in names}

\* C14: one resolution run makes at most 1 MAC-based lookup and at most 4
\* MAC-free lookups, at most 3 of them repeats of the ARP-retry stage.  Each
\* repeat runs when 2000 ms have passed since the lookup before it, which
\* had found nothing, and a repeat that finds an address is the last lookup
\* of the run.  The subnet scan starts only when the MAC-based lookup and
\* all 4 MAC-free lookups have been made and have found nothing.
C14_ArpRetryBounded ==
    LET macBased == StagesNamed({"MAC_ARP"})
        macFree == StagesNamed({"MAC_FREE_ARP", "ARP_RETRY"})
        repeats == StagesNamed({"ARP_RETRY"})
    IN  /\ Cardinality(macBased) <= 1
        /\ Cardinality(macFree) <= 4
        /\ Cardinality(repeats) <= 3
        /\ \A i \in repeats :
             /\ stageLog[i].waited >= 2000
             /\ i > 1 /\ stageLog[i - 1].ip = Null
             /\ stageLog[i - 1].stage \in {"MAC_FREE_ARP", "ARP_RETRY"}
             /\ stageLog[i].ip # Null => i = Len(stageLog)
        /\ batchLog # <<>> =>
             /\ Cardinality(macBased) = 1
             /\ Cardinality(macFree) = 4
             /\ \A i \in macBased \cup macFree : stageLog[i].ip = Null

\* the scan has started after the third repeat
C14_Witness ==
    /\ pc = "SCAN"
    /\ Len(batchLog) = 1
    /\ Cardinality(StagesNamed({"ARP_RETRY"})) = 3
    /\ stageLog[Len(stageLog)].waited = 2000

\* the second repeat has found the address
C14_FoundWitness ==
    /\ pc = "ARP_RETRY_DONE"
    /\ Cardinality(StagesNamed({"ARP_RETRY"})) = 2
    /\ clientIp # Null

\* C15: at most 25 probes are in flight at any time, and the probes of a
\* batch start only when no probe of the batch before is in flight any more:
\* the probes that start are those of one batch, all together.
C15_ProbesBatched ==
    /\ [](Cardinality(inflight) <= 25)
    /\ [][inflight' \ inflight # {} =>
            /\ inflight = {}
            /\ batchStart' # batchStart
            /\ inflight' = batchStart' .. batchEnd(batchStart')]_vars

\* the second batch has started and none of its probes has completed
C15_Witness ==
    /\ Len(batchLog) = 2
    /\ Cardinality(inflight) = 25
    /\ batchLog[1].awaited

lowest(hosts) == CHOOSE h \in hosts : \A g \in hosts : h <= g

\* C16: the result of the scan does not depend on the order in which the
\* probes complete.  A scan that returns an address returns the address of
\* the lowest host that answered in the batch awaited last, whichever host
\* answered first, and no host had answered in the batches before; a scan
\* that returns none has found no answer in any batch.
C16_LowestOfFirstBatch ==
    (stageLog # <<>> /\ stageLog[Len(stageLog)].stage = "SUBNET_SCAN") =>
        LET found == stageLog[Len(stageLog)].ip
            n == Len(batchLog)
        IN  /\ \A k \in 1 .. n - 1 : batchLog[k].results = <<>>
            /\ inflight = {}
            /\ reached \subseteq batchLog[n].start .. batchLog[n].last
            /\ found = Null => reached = {} /\ batchLog[n].results = <<>>
            /\ found # Null =>
                 /\ reached # {}
                 /\ found = Some(candidateIp(lowest(reached)))
                 /\ clientIp = found

\* hosts 27 and 40 of the second batch answered, 40 first: the scan has
\* returned 192.168.49.27
C16_Witness ==
    /\ pc = "RESOLVED"
    /\ Len(batchLog) = 2
    /\ reached = {27, 40}
    /\ firstReached = 40
    /\ clientIp = Some(candidateIp(27))

\* the number of probes the scan of this flow has started for host h
probesOf(h) ==
    Cardinality({k \in 1 .. Len(batchLog) :
                    batchLog[k].start <= h /\ h <= batchLog[k].last})

batchSizeOf(k) == batchLog[k].last - batchLog[k].start + 1

scanReturnedNone ==
    /\ stageLog # <<>>
    /\ stageLog[Len(stageLog)] = Stage("SUBNET_SCAN", Null)

\* the part of C17 that does not speak of the size of a batch: every batch
\* lies within hosts 2..254, so hosts 1 and 255 are never probed; a later
\* batch begins above the end of every earlier one, so no host is probed
\* twice in one scan; the probes in flight are those of the batch started
\* last; and a scan that returns none has awaited every batch and probed
\* each of the 253 hosts exactly once.
BatchesPartitionHosts ==
    /\ \A k \in 1 .. Len(batchLog) :
         /\ FIRST_HOST <= batchLog[k].start
         /\ batchLog[k].start <= batchLog[k].last
         /\ batchLog[k].last <= LAST_HOST
    /\ batchLog # <<>> =>
         /\ \A j, k \in 1 .. Len(batchLog) :
              j < k => batchLog[j].last < batchLog[k].start
         /\ probesOf(1) = 0 /\ probesOf(255) = 0
         /\ inflight \subseteq batchLog[Len(batchLog)].start ..
                                batchLog[Len(batchLog)].last
    /\ scanReturnedNone =>
         /\ \A h \in 2 .. 254 : probesOf(h) = 1
         /\ \A k \in 1 .. Len(batchLog) : batchLog[k].awaited

\* C17 as claimed: the batches partition 2..254 and each has 25 addresses.
C17_BatchesOf25 ==
    /\ BatchesPartitionHosts
    /\ \A k \in 1 .. Len(batchLog) : batchSizeOf(k) = 25

\* C17: the batches partition the hosts 2..254 into ten batches of 25
\* addresses and a last batch, 252..254, of 3: every host of 2..254 is in
\* exactly one batch and probed at most once per scan, hosts 1 and 255 are
\* never probed, and a scan that returns none has probed each of the 253
\* hosts exactly once.
C17_BatchesPartition ==
    /\ BatchesPartitionHosts
    /\ Len(batchLog) <= 11
    /\ \A k \in 1 .. Len(batchLog) :
         batchSizeOf(k) = IF k <= 10 THEN 25 ELSE 3

\* no host answered: the scan has awaited its eleven batches
C17_Witness ==
    /\ pc = "RESOLVED"
    /\ scanReturnedNone
    /\ Len(batchLog) = 11
    /\ batchLog[11].start = 252 /\ batchLog[11].last = 254

\* an address of 192.168.49.0/24: the prefix and a host number 0..255
inSubnet(ip) == \E h \in 0 .. 255 : ip = candidateIp(h)

\* the first row, in table order, whose address lies in the subnet and is
\* not the group owner's
RECURSIVE firstSubnetEntry(_)
firstSubnetEntry(rows) ==
    IF rows = <<>> THEN Null
    ELSE IF inSubnet(Head(rows)) /\ Head(rows) # GO_IP THEN Some(Head(rows))
    ELSE firstSubnetEntry(Tail(rows))

\* C18: for every ARP table the MAC-free lookup returns the first entry, in
\* table order, whose IP lies in 192.168.49.0/24 and differs from
\* 192.168.49.1, and none when there is no such entry; it never returns
\* 192.168.49.1 and never an address outside the subnet.
C18_FirstSubnetEntry ==
    arpCheck.applied =>
        /\ arpCheck.result = IF arpCheck.ok
                              THEN firstSubnetEntry(arpCheck.rows)
                              ELSE Null
        /\ arpCheck.result # Some(GO_IP)
        /\ arpCheck.result # Null => inSubnet(arpCheck.result[1])

\* C19: both retries resume their continuation on the caller's context,
\* Dispatchers.Main, and every onConnected and onFailure runs there, never
\* on the context of the launched coroutine nor on Dispatchers.IO.
C19_RetriesAndCallbacksOnMain ==
    \A e \in ctxSeen :
        /\ e.what \in {"initiateConnection", "resolveClientIpFromGroup"}
              => e.ctx = MainContext
        /\ e.what \in {"onConnected", "onFailure"}
              => e.ctx = MainContext /\ e.ctx \notin {ScopeContext, IoContext}

callbackFired == onConnectedCalls # <<>> \/ onFailureCalls # <<>>

\* C20: a flow calls onConnected or onFailure, never both, and a flow that
\* has called one of them has ended: until the caller's next call it makes
\* no connect call, no discoverPeers call, no ARP lookup, no probe and no
\* removeGroup request, starts no delay and calls no callback again.
C20_NothingAfterCallback ==
    /\ [](onConnectedCalls = <<>> \/ onFailureCalls = <<>>)
    /\ [](callbackFired =>
             pc \in {"SUCCESS", "FAILED"} /\ inflight = {} /\ timer = NoTimer)
    /\ [][callbackFired /\ flowNo' = flowNo =>
            UNCHANGED <<pc, connVars, timeVars, arpVars, stageLog, scanVars,
                        removeGroup, callVars>>]_vars

\* the flow has ended with onConnected while its rediscovery is unanswered
C20_Witness ==
    /\ pc = "SUCCESS"
    /\ Len(onConnectedCalls) = 1
    /\ discoverCalls = 1
    /\ discoverPending = 1
    /\ flowNo = 1

\* ------------------------------------------------------------------ C21
\* the scope.launch block of the IP resolution: the first one after the
\* line where targetClient is found
resolutionLaunch(kt) ==
    LET t == firstIndex({i \in 1 .. Len(kt) : contains(kt[i], TARGET_CLIENT)})
    IN  IF t = None THEN None
        ELSE firstIndex({i \in t + 1 .. Len(kt) :
                            strip(kt[i]) = SCOPE_LAUNCH})

\* C21: when Fix 1 of fix_go_ip_v2 has been applied, the lines in memory
\* are the lines of the file with the scope.launch block that follows the
\* targetClient line (up to its matching brace) replaced by the new block,
\* and every other line is as it was; an earlier scope.launch block of the
\* function is left alone.
C21_ResolutionBlockReplaced ==
    At("fix_go_ip_v2", "fix1") =>
        LET a == resolutionLaunch(patch.orig)
        IN  /\ a # None
            /\ matchingBrace(patch.orig, a) # None
            /\ patch.lines = splice(patch.orig, a,
                                    matchingBrace(patch.orig, a),
                                    new_launch_block)

\* ------------------------------------------------------------------ C22
hasLine(kt, needle) == \E i \in 1 .. Len(kt) : contains(kt[i], needle)

\* a scope.launch block begins on line i and has its closing brace
launchBlockAt(kt, i) ==
    /\ i \in 1 .. Len(kt)
    /\ contains(kt[i], <<"scope.launch">>)
    /\ matchingBrace(kt, i) # None

\* the anchors every fix of a script looks for are in the file
anchorsFound(script, kt) ==
    CASE script = "fix_connection_manager" ->
           /\ hasLine(kt, old_const)
           /\ \E s \in 1 .. Len(kt), r \in 1 .. Len(kt), e \in 1 .. Len(kt) :
                /\ s <= r
                /\ r < e
                /\ contains(kt[s], CLEANING_UP)
                /\ contains(kt[r], RETRYING_ANYWAY)
                /\ strip(kt[e]) = <<"}", ")">>
      [] script = "fix_go_ip_v2" ->
           /\ \E f \in 1 .. Len(kt), i \in 1 .. Len(kt) :
                /\ f < i
                /\ contains(kt[f], FUNC_RESOLVE)
                /\ launchBlockAt(kt, i)
           /\ hasLine(kt, old_marker)
           /\ \E s \in 1 .. Len(kt) :
                /\ contains(kt[s], FUNC_SCAN)
                /\ matchingBraceAfterOpen(kt, s) # None
      [] script = "fix_go_ip_v3" ->
           /\ \E l \in 1 .. Len(kt) :
                /\ contains(kt[l], GROUP_NULL_LOG)
                /\ launchBlockAt(kt, l + 1)
           /\ \E t \in 1 .. Len(kt), i \in 1 .. Len(kt) :
                /\ t <= i
                /\ contains(kt[t], TARGET_CLIENT)
                /\ launchBlockAt(kt, i)

\* C22: a script writes the file only at its end and only when every one
\* of its fixes has found its anchor in the file: the file on disk differs
\* from the file read only after the write, a script that ended with an
\* error has left the file as it was, and a script that has written found
\* all its anchors (with an anchor missing it never gets to the write).
C22_AllOrNothing ==
    /\ patch.disk # patch.orig => patch.pc = "written"
    /\ patch.pc \in {"exit", "crash"} => patch.disk = patch.orig
    /\ patch.pc = "written" => anchorsFound(patch.script, patch.orig)

====
